---- MODULE Spec2Model ----
(***************************************************************************)
(* Model of src/main.py: the Bayesian decision pipeline of main() for a    *)
(* table cipher (P(C), P(M,C), P(M|C), the deterministic and stochastic    *)
(* Bayes rules, their average 0-1 losses) followed by the menu.            *)
(*                                                                         *)
(* Numbers: the program's floats are modelled as exact rationals           *)
(* <<num, den>> in lowest terms with den > 0, so every statement checked   *)
(* here is a statement in exact arithmetic.  Lists are functions on        *)
(* 0..n-1, indexed as in the source.                                       *)
(***************************************************************************)
EXTENDS Integers, Sequences, FiniteSets

\* ---------------------------------------------------------------- bounds
\* alphabet size n handed to every calc_* function (the source's default is 20)
N == 3
\* the priors are the distributions whose entries are multiples of 1/Den
Den == 2
\* the posterior matrices of the direct calls have entries k/ValDen, k in 0..ValDen
ValDen == 2
\* longest line typed at the menu prompt
MaxInLen == 2

\* ------------------------------------------------------------ arithmetic
Abs(x) == IF x < 0 THEN -x ELSE x

RECURSIVE GCD(_, _)
GCD(a, b) == IF b = 0 THEN a ELSE GCD(b, a % b)

\* the rational a/b (b # 0) in lowest terms, denominator positive
Frac(a, b) ==
    LET g == GCD(Abs(a), Abs(b))
        s == IF b < 0 THEN -1 ELSE 1
    IN  <<(s * a) \div g, (s * b) \div g>>

Zero == <<0, 1>>
One == <<1, 1>>
\* the literal -1.0 that starts every argmax scan
MinusOne == <<-1, 1>>

RAdd(x, y) == Frac(x[1] * y[2] + y[1] * x[2], x[2] * y[2])
RSub(x, y) == Frac(x[1] * y[2] - y[1] * x[2], x[2] * y[2])
RMul(x, y) == Frac(x[1] * y[1], x[2] * y[2])
\* x / y for y # 0; the callers raise ZeroDivisionError when y = 0
RDiv(x, y) == Frac(x[1] * y[2], x[2] * y[1])
\* x > y
RGreater(x, y) == x[1] * y[2] > y[1] * x[2]
\* x == y (both in lowest terms)
REqual(x, y) == x[1] * y[2] = y[1] * x[2]

\* ------------------------------------------------------- Python indexing
\* a faulty variant: no negative indices
InRange_nonneg(i, n) == 0 <= i /\ i < n

\* lst[i] on a list of length n is defined for -n <= i < n ...
InRange(i, n) == -n <= i /\ i < n
\* ... and a negative i counts from the end
PyIndex(i, n) == IF i < 0 THEN i + n ELSE i

\* what a calc_* call or int() gives back: a value, or the exception raised
Ok(v) == [err |-> "none", val |-> v]
Raise(e) == [err |-> e, val |-> <<>>]

\* ------------------------------------------------ calculation of P(C)
\* a faulty variant: "=" for "+=" (the bucket keeps only the last pair's mass)
ct_step_assign(prob_ct, ct, prob_keys, prob_pt, key, msg, n) ==
    [prob_ct EXCEPT ![PyIndex(ct, n)] = RMul(prob_keys[key], prob_pt[msg])]

\* prob_ct[ct] += prob_keys[key] * prob_pt[msg]
ct_step(prob_ct, ct, prob_keys, prob_pt, key, msg, n) ==
    [prob_ct EXCEPT ![PyIndex(ct, n)] = RAdd(@, RMul(prob_keys[key], prob_pt[msg]))]

\* the two nested loops, i = msg * n + key
RECURSIVE ct_loop(_, _, _, _, _, _)
ct_loop(prob_ct, i, prob_pt, prob_keys, cipher_table, n) ==
    IF i = n * n THEN Ok(prob_ct)
    ELSE LET msg == i \div n
             key == i % n
             ct == cipher_table[key][msg]
         IN  IF ~InRange(ct, n) THEN Raise("IndexError")
             ELSE ct_loop(ct_step(prob_ct, ct, prob_keys, prob_pt, key, msg, n),
                          i + 1, prob_pt, prob_keys, cipher_table, n)

calc_ct_prob(prob_pt, prob_keys, cipher_table, n) ==
    ct_loop([c \in 0..(n - 1) |-> Zero], 0, prob_pt, prob_keys, cipher_table, n)

\* ---------------------------------------------- calculation of P(M, C)
\* prob[msg][ct] += prob_keys[key] * prob_pt[msg]
pt_ct_step(prob, ct, prob_keys, prob_pt, key, msg, n) ==
    [prob EXCEPT ![msg][PyIndex(ct, n)] = RAdd(@, RMul(prob_keys[key], prob_pt[msg]))]

RECURSIVE pt_ct_loop(_, _, _, _, _, _)
pt_ct_loop(prob, i, prob_pt, prob_keys, cipher_table, n) ==
    IF i = n * n THEN Ok(prob)
    ELSE LET msg == i \div n
             key == i % n
             ct == cipher_table[key][msg]
         IN  IF ~InRange(ct, n) THEN Raise("IndexError")
             ELSE pt_ct_loop(pt_ct_step(prob, ct, prob_keys, prob_pt, key, msg, n),
                             i + 1, prob_pt, prob_keys, cipher_table, n)

calc_pt_ct_prob(prob_pt, prob_keys, cipher_table, n) ==
    pt_ct_loop([m \in 0..(n - 1) |-> [c \in 0..(n - 1) |-> Zero]], 0,
               prob_pt, prob_keys, cipher_table, n)

\* ---------------------------------------------- calculation of P(M | C)
\* a faulty variant: the divisor is prob_c[msg]
calc_pt_if_exist_ct_prob_by_msg(prob_mc, prob_c, n) ==
    IF \E ct \in 0..(n - 1) : prob_c[ct][1] = 0
    THEN Raise("ZeroDivisionError")
    ELSE Ok([msg \in 0..(n - 1) |->
                [ct \in 0..(n - 1) |-> RAdd(Zero, RDiv(prob_mc[msg][ct], prob_c[msg]))]])

\* prob[msg][ct] += prob_mc[msg][ct] / prob_c[ct]; the first zero divisor
\* met (msg = 0, the least ct with prob_c[ct] = 0) raises ZeroDivisionError
calc_pt_if_exist_ct_prob(prob_mc, prob_c, n) ==
    IF \E ct \in 0..(n - 1) : prob_c[ct][1] = 0
    THEN Raise("ZeroDivisionError")
    ELSE Ok([msg \in 0..(n - 1) |->
                [ct \in 0..(n - 1) |-> RAdd(Zero, RDiv(prob_mc[msg][ct], prob_c[ct]))]])

\* ------------------------------------------------- decision functions
\* a faulty variant: ">=" for ">" (the last of equal maxima wins)
RECURSIVE det_scan_ge(_, _, _, _, _, _)
det_scan_ge(pm_if_c, ct, msg, best_prob, best_msg, n) ==
    IF msg = n THEN best_msg
    ELSE IF ~RGreater(best_prob, pm_if_c[msg][ct])
         THEN det_scan_ge(pm_if_c, ct, msg + 1, pm_if_c[msg][ct], msg, n)
         ELSE det_scan_ge(pm_if_c, ct, msg + 1, best_prob, best_msg, n)

\* a faulty variant: "<" for ">" against a start of 2 (the least posterior wins)
RECURSIVE det_scan_min(_, _, _, _, _, _)
det_scan_min(pm_if_c, ct, msg, best_prob, best_msg, n) ==
    IF msg = n THEN best_msg
    ELSE IF RGreater(IF msg = 0 THEN <<2, 1>> ELSE best_prob, pm_if_c[msg][ct])
         THEN det_scan_min(pm_if_c, ct, msg + 1, pm_if_c[msg][ct], msg, n)
         ELSE det_scan_min(pm_if_c, ct, msg + 1, best_prob, best_msg, n)

\* the inner loop over msg for one ct: best_msg when the loop ends
RECURSIVE det_scan(_, _, _, _, _, _)
det_scan(pm_if_c, ct, msg, best_prob, best_msg, n) ==
    IF msg = n THEN best_msg
    ELSE IF RGreater(pm_if_c[msg][ct], best_prob)
         THEN det_scan(pm_if_c, ct, msg + 1, pm_if_c[msg][ct], msg, n)
         ELSE det_scan(pm_if_c, ct, msg + 1, best_prob, best_msg, n)

calc_deterministic_func_ge(pm_if_c, n) ==
    [ct \in 0..(n - 1) |-> det_scan_ge(pm_if_c, ct, 0, MinusOne, 0, n)]

calc_deterministic_func_min(pm_if_c, n) ==
    [ct \in 0..(n - 1) |-> det_scan_min(pm_if_c, ct, 0, MinusOne, 0, n)]

calc_deterministic_func(pm_if_c, n) ==
    [ct \in 0..(n - 1) |-> det_scan(pm_if_c, ct, 0, MinusOne, 0, n)]

\* the inner loop over msg for one ct: best_msgs when the loop ends
RECURSIVE stoch_scan(_, _, _, _, _, _)
stoch_scan(pm_if_c, ct, msg, best_prob, best_msgs, n) ==
    IF msg = n THEN best_msgs
    ELSE IF RGreater(pm_if_c[msg][ct], best_prob)
         THEN stoch_scan(pm_if_c, ct, msg + 1, pm_if_c[msg][ct], <<msg>>, n)
         ELSE IF REqual(pm_if_c[msg][ct], best_prob)
              THEN stoch_scan(pm_if_c, ct, msg + 1, best_prob, Append(best_msgs, msg), n)
              ELSE stoch_scan(pm_if_c, ct, msg + 1, best_prob, best_msgs, n)

\* coef = 1.0 / len(best_msgs); delta[ct][msg] = coef for msg in best_msgs
stoch_row(best_msgs, n) ==
    [msg \in 0..(n - 1) |->
        IF \E j \in 1..Len(best_msgs) : best_msgs[j] = msg
        THEN RDiv(One, <<Len(best_msgs), 1>>) ELSE Zero]

\* a faulty variant: the tie list is not restarted by a new maximum
RECURSIVE stoch_scan_keep(_, _, _, _, _, _)
stoch_scan_keep(pm_if_c, ct, msg, best_prob, best_msgs, n) ==
    IF msg = n THEN best_msgs
    ELSE IF RGreater(pm_if_c[msg][ct], best_prob)
         THEN stoch_scan_keep(pm_if_c, ct, msg + 1, pm_if_c[msg][ct],
                              Append(best_msgs, msg), n)
         ELSE IF REqual(pm_if_c[msg][ct], best_prob)
              THEN stoch_scan_keep(pm_if_c, ct, msg + 1, best_prob,
                                   Append(best_msgs, msg), n)
              ELSE stoch_scan_keep(pm_if_c, ct, msg + 1, best_prob, best_msgs, n)

\* a faulty variant: an equal posterior replaces the tie list, "= [msg]" for ".append(msg)"
RECURSIVE stoch_scan_last(_, _, _, _, _, _)
stoch_scan_last(pm_if_c, ct, msg, best_prob, best_msgs, n) ==
    IF msg = n THEN best_msgs
    ELSE IF ~RGreater(best_prob, pm_if_c[msg][ct])
         THEN stoch_scan_last(pm_if_c, ct, msg + 1, pm_if_c[msg][ct], <<msg>>, n)
         ELSE stoch_scan_last(pm_if_c, ct, msg + 1, best_prob, best_msgs, n)

calc_stochastic_func_last(pm_if_c, n) ==
    [ct \in 0..(n - 1) |-> stoch_row(stoch_scan_last(pm_if_c, ct, 0, MinusOne, <<>>, n), n)]

calc_stochastic_func_keep(pm_if_c, n) ==
    [ct \in 0..(n - 1) |-> stoch_row(stoch_scan_keep(pm_if_c, ct, 0, MinusOne, <<>>, n), n)]

calc_stochastic_func(pm_if_c, n) ==
    [ct \in 0..(n - 1) |-> stoch_row(stoch_scan(pm_if_c, ct, 0, MinusOne, <<>>, n), n)]

\* ------------------------------------------------------ average losses
\* total after the loop over c: total += prob_m_c[delta[c]][c]
RECURSIVE det_total(_, _, _, _, _)
det_total(prob_m_c, delta, c, total, n) ==
    IF c = n THEN total
    ELSE det_total(prob_m_c, delta, c + 1, RAdd(total, prob_m_c[delta[c]][c]), n)

calc_average_loss_deterministic_func(prob_m_c, delta, n) ==
    RSub(One, det_total(prob_m_c, delta, 0, Zero, n))

\* total after the two loops, i = c * n + m: total += prob_m_c[m][c] * delta[c][m]
RECURSIVE stoch_total(_, _, _, _, _)
stoch_total(prob_m_c, delta, i, total, n) ==
    IF i = n * n THEN total
    ELSE LET c == i \div n
             m == i % n
         IN  stoch_total(prob_m_c, delta, i + 1,
                         RAdd(total, RMul(prob_m_c[m][c], delta[c][m])), n)

\* a faulty variant: the joint matrix is read transposed, prob_m_c[c][m]
RECURSIVE stoch_total_tr(_, _, _, _, _)
stoch_total_tr(prob_m_c, delta, i, total, n) ==
    IF i = n * n THEN total
    ELSE LET c == i \div n
             m == i % n
         IN  stoch_total_tr(prob_m_c, delta, i + 1,
                            RAdd(total, RMul(prob_m_c[c][m], delta[c][m])), n)

calc_average_loss_stochastic_func_tr(prob_m_c, delta, n) ==
    RSub(One, stoch_total_tr(prob_m_c, delta, 0, Zero, n))

calc_average_loss_stochastic_func(prob_m_c, delta, n) ==
    RSub(One, stoch_total(prob_m_c, delta, 0, Zero, n))

\* ------------------------------------------------------- int(input(...))
IsSpace(ch) == ch = " "
IsDigit(ch) == ch \in {"0", "1", "2", "3", "4", "5", "6", "7", "8", "9"}
DigitVal(ch) ==
    CASE ch = "0" -> 0 [] ch = "1" -> 1 [] ch = "2" -> 2 [] ch = "3" -> 3
      [] ch = "4" -> 4 [] ch = "5" -> 5 [] ch = "6" -> 6 [] ch = "7" -> 7
      [] ch = "8" -> 8 [] ch = "9" -> 9

\* int() ignores white space around the number
RECURSIVE StripLeft(_)
StripLeft(text) ==
    IF text # <<>> /\ IsSpace(Head(text)) THEN StripLeft(Tail(text)) ELSE text

RECURSIVE StripRight(_)
StripRight(text) ==
    IF text # <<>> /\ IsSpace(text[Len(text)])
    THEN StripRight(SubSeq(text, 1, Len(text) - 1)) ELSE text

\* the value of a string of decimal digits, most significant first
RECURSIVE DigitsValue(_, _)
DigitsValue(digits, acc) ==
    IF digits = <<>> THEN acc
    ELSE DigitsValue(Tail(digits), 10 * acc + DigitVal(Head(digits)))

\* int(text): an optional sign, then at least one digit and nothing else;
\* any other text raises ValueError
py_int(text) ==
    LET t == StripRight(StripLeft(text))
        signed == t # <<>> /\ Head(t) \in {"-", "+"}
        digits == IF signed THEN Tail(t) ELSE t
    IN  IF digits = <<>> \/ \E j \in 1..Len(digits) : ~IsDigit(digits[j])
        THEN Raise("ValueError")
        ELSE Ok(IF signed /\ Head(t) = "-" THEN -DigitsValue(digits, 0)
                ELSE DigitsValue(digits, 0))

\* ------------------------------------------------------------- the state
VARIABLES
    prob_pt,            \* row 0 of the priors file: P(M)
    prob_keys,          \* row 1 of the priors file: P(K)
    cipher_table_data,  \* the cipher table, [key][plaintext] -> ciphertext
    pc,                 \* P(C)
    pmc,                \* P(M, C)
    pm_if_c,            \* P(M | C)
    df,                 \* the deterministic rule
    sf,                 \* the stochastic rule
    aldf,               \* average loss of df
    alsf,               \* average loss of sf
    stdin,              \* the line typed at the prompt
    choose,             \* int(stdin)
    out,                \* the report printed
    at,                 \* the statement of main() about to run
    exc                 \* the exception that ended main(), "none" if none

vars == <<prob_pt, prob_keys, cipher_table_data, pc, pmc, pm_if_c, df, sf,
          aldf, alsf, stdin, choose, out, at, exc>>

\* a name not yet bound
None == <<>>

\* ------------------------------------------------------------ the inputs
Idx == 0..(N - 1)

RECURSIVE SumInts(_, _)
SumInts(w, i) == IF i < 0 THEN 0 ELSE w[i] + SumInts(w, i - 1)

\* the probability distributions on 0..N-1 with entries in {0, 1/Den, ..., 1}
Dists ==
    { [i \in Idx |-> Frac(w[i], Den)] :
        w \in { v \in [Idx -> 0..Den] : SumInts(v, N - 1) = Den } }

Uniform == [i \in Idx |-> Frac(1, N)]
PointMass == [i \in Idx |-> IF i = 0 THEN One ELSE Zero]

\* every row a bijection: row key is the rotation by a + b * key
RotTable(a, b) == [key \in Idx |-> [msg \in Idx |-> (msg + a + b * key) % N]]
RotTables == { RotTable(a, b) : a \in Idx, b \in Idx }
\* one diagonal entry of the Latin square overwritten: by an entry in range
\* (the row is no bijection any more), or by one outside [0, N)
PatchedTables ==
    { [RotTable(0, 1) EXCEPT ![i][i] = e] : i \in Idx, e \in (-(N + 1))..N }
\* every pair encrypted to the same ciphertext
ConstTables == { [key \in Idx |-> [msg \in Idx |-> c]] : c \in Idx }
Tables == RotTables \cup PatchedTables \cup ConstTables

\* the lines typed at the prompt
Chars == {"0", "1", "7", "8", "-", " ", "x"}
RECURSIVE Texts(_)
Texts(len) ==
    IF len = 0 THEN {<<>>}
    ELSE LET shorter == Texts(len - 1)
         IN  shorter \cup { Append(t, ch) : t \in { u \in shorter : Len(u) = len - 1 },
                                            ch \in Chars }
AllTexts == Texts(MaxInLen)
FewTexts == {<<"4">>, <<"x">>}

Unbound ==
    /\ pc = None /\ pmc = None /\ pm_if_c = None /\ df = None /\ sf = None
    /\ aldf = None /\ alsf = None /\ stdin = None /\ choose = None
    /\ out = None /\ exc = "none"

\* main() after the two read_csv calls
Init ==
    /\ prob_pt \in Dists
    /\ prob_keys \in Dists
    /\ cipher_table_data \in Tables
    /\ at = "calc_ct_prob"
    /\ Unbound

\* ------------------------------------------------------------- main()
Fail(e) ==
    /\ at' = "raised"
    /\ exc' = e

CalcCtProb ==
    /\ at = "calc_ct_prob"
    /\ LET r == calc_ct_prob(prob_pt, prob_keys, cipher_table_data, N)
       IN  IF r.err = "none"
           THEN pc' = r.val /\ at' = "calc_pt_ct_prob" /\ exc' = exc
           ELSE pc' = pc /\ Fail(r.err)
    /\ UNCHANGED <<prob_pt, prob_keys, cipher_table_data, pmc, pm_if_c, df, sf,
                   aldf, alsf, stdin, choose, out>>

CalcPtCtProb ==
    /\ at = "calc_pt_ct_prob"
    /\ LET r == calc_pt_ct_prob(prob_pt, prob_keys, cipher_table_data, N)
       IN  IF r.err = "none"
           THEN pmc' = r.val /\ at' = "calc_pt_if_exist_ct_prob" /\ exc' = exc
           ELSE pmc' = pmc /\ Fail(r.err)
    /\ UNCHANGED <<prob_pt, prob_keys, cipher_table_data, pc, pm_if_c, df, sf,
                   aldf, alsf, stdin, choose, out>>

CalcPtIfExistCtProb ==
    /\ at = "calc_pt_if_exist_ct_prob"
    /\ LET r == calc_pt_if_exist_ct_prob(pmc, pc, N)
       IN  IF r.err = "none"
           THEN pm_if_c' = r.val /\ at' = "calc_deterministic_func" /\ exc' = exc
           ELSE pm_if_c' = pm_if_c /\ Fail(r.err)
    /\ UNCHANGED <<prob_pt, prob_keys, cipher_table_data, pc, pmc, df, sf,
                   aldf, alsf, stdin, choose, out>>

CalcDeterministicFunc ==
    /\ at = "calc_deterministic_func"
    /\ df' = calc_deterministic_func(pm_if_c, N)
    /\ at' = "calc_stochastic_func"
    /\ UNCHANGED <<prob_pt, prob_keys, cipher_table_data, pc, pmc, pm_if_c, sf,
                   aldf, alsf, stdin, choose, out, exc>>

CalcStochasticFunc ==
    /\ at = "calc_stochastic_func"
    /\ sf' = calc_stochastic_func(pm_if_c, N)
    /\ at' = "calc_average_loss_deterministic_func"
    /\ UNCHANGED <<prob_pt, prob_keys, cipher_table_data, pc, pmc, pm_if_c, df,
                   aldf, alsf, stdin, choose, out, exc>>

CalcAverageLossDeterministicFunc ==
    /\ at = "calc_average_loss_deterministic_func"
    /\ aldf' = calc_average_loss_deterministic_func(pmc, df, N)
    /\ at' = "calc_average_loss_stochastic_func"
    /\ UNCHANGED <<prob_pt, prob_keys, cipher_table_data, pc, pmc, pm_if_c, df, sf,
                   alsf, stdin, choose, out, exc>>

CalcAverageLossStochasticFunc ==
    /\ at = "calc_average_loss_stochastic_func"
    /\ alsf' = calc_average_loss_stochastic_func(pmc, sf, N)
    /\ at' = "input"
    /\ UNCHANGED <<prob_pt, prob_keys, cipher_table_data, pc, pmc, pm_if_c, df, sf,
                   aldf, stdin, choose, out, exc>>

\* choose = int(input(...)), the line typed being one of texts
ReadChoose(texts) ==
    /\ at = "input"
    /\ \E text \in texts :
          /\ stdin' = text
          /\ LET r == py_int(text)
             IN  IF r.err = "none"
                 THEN choose' = r.val /\ at' = "match" /\ exc' = exc
                 ELSE choose' = choose /\ Fail(r.err)
    /\ UNCHANGED <<prob_pt, prob_keys, cipher_table_data, pc, pmc, pm_if_c, df, sf,
                   aldf, alsf, out>>

\* the report a selection prints (its first line stands for the whole report)
Report(sel) ==
    CASE sel = 1 -> "Result of calculating cipher text probability P(C):"
      [] sel = 2 -> "Result of calculating plaintext-ciphertext pairs probability P(M, C):"
      [] sel = 3 -> "Result of calculating plaintext if ciphertext exist probability P(M | C):"
      [] sel = 4 -> "Result of calculating optimal deterministic decision function:"
      [] sel = 5 -> "Result of calculating optimal stochastic decision function:"
      [] sel = 6 -> "Result of calculating average loss for deterministic decision function:"
      [] sel = 7 -> "Result of calculating average loss for stochastic decision function:"
      [] OTHER -> "Incorrect value input! Try again"

Match ==
    /\ at = "match"
    /\ out' = Report(choose)
    /\ at' = "exit"
    /\ UNCHANGED <<prob_pt, prob_keys, cipher_table_data, pc, pmc, pm_if_c, df, sf,
                   aldf, alsf, stdin, choose, exc>>

Compute ==
    \/ CalcCtProb
    \/ CalcPtCtProb
    \/ CalcPtIfExistCtProb
    \/ CalcDeterministicFunc
    \/ CalcStochasticFunc
    \/ CalcAverageLossDeterministicFunc
    \/ CalcAverageLossStochasticFunc

Next ==
    \/ Compute
    \/ ReadChoose(FewTexts)
    \/ Match

Spec == Init /\ [][Next]_vars

\* ---------------------------------- the decision functions called alone
\* posterior matrices: column c0 is any column v with entries in
\* {0, 1/ValDen, ..., 1}, every other column is 1 at plaintext j and 0 elsewhere
PostVals == { Frac(k, ValDen) : k \in 0..ValDen }
Posteriors ==
    { [msg \in Idx |-> [ct \in Idx |-> IF ct = c0 THEN v[msg]
                                        ELSE IF msg = j THEN One ELSE Zero]] :
        c0 \in Idx, j \in Idx, v \in [Idx -> PostVals] }

InitRules ==
    /\ pm_if_c \in Posteriors
    /\ prob_pt = None /\ prob_keys = None /\ cipher_table_data = None
    /\ pc = None /\ pmc = None /\ df = None /\ sf = None
    /\ aldf = None /\ alsf = None /\ stdin = None /\ choose = None
    /\ out = None /\ exc = "none"
    /\ at = "calc_deterministic_func"

NextRules ==
    \/ CalcDeterministicFunc
    \/ CalcStochasticFunc

SpecRules == InitRules /\ [][NextRules]_vars

\* ------------------------------------------- main() at the menu prompt
InitMenu ==
    /\ prob_pt \in {Uniform, PointMass}
    /\ prob_keys \in {Uniform, PointMass}
    /\ cipher_table_data \in {RotTable(0, 1), [RotTable(0, 1) EXCEPT ![0][0] = N]}
    /\ at = "calc_ct_prob"
    /\ Unbound

NextMenu ==
    \/ Compute
    \/ ReadChoose(AllTexts)
    \/ Match

SpecMenu == InitMenu /\ [][NextMenu]_vars

\* ------------------------------------------------------------ properties
RECURSIVE RSum(_, _)
RSum(f, i) == IF i < 0 THEN Zero ELSE RAdd(f[i], RSum(f, i - 1))

\* plaintext m has the greatest entry of column c
IsMax(pm, m, c) == \A m2 \in Idx : ~RGreater(pm[m2][c], pm[m][c])
ArgMax(pm, c) == { m \in Idx : IsMax(pm, m, c) }

\* C1: the deterministic rule picks, for every ciphertext c, the smallest
\* plaintext index whose posterior equals the maximum of column c
C1_FirstMaxWins ==
    df # None =>
        \A c \in Idx :
            /\ df[c] \in ArgMax(pm_if_c, c)
            /\ \A m \in ArgMax(pm_if_c, c) : df[c] <= m

\* a column whose maximum is tied and does not start at index 0
C1_Witness ==
    /\ df # None
    /\ \E c \in Idx : df[c] = 1 /\ 2 \in ArgMax(pm_if_c, c)

\* C2: the stochastic rule gives 1/|T| to every plaintext of the tie set T
\* of column c and 0 to the others, so row c sums to exactly 1
C2_UniformOverTies ==
    sf # None =>
        \A c \in Idx :
            /\ \A m \in Idx :
                  sf[c][m] = IF m \in ArgMax(pm_if_c, c)
                             THEN Frac(1, Cardinality(ArgMax(pm_if_c, c)))
                             ELSE Zero
            /\ RSum(sf[c], N - 1) = One

\* a tie set of two that leaves a plaintext out
C2_Witness ==
    /\ sf # None
    /\ \E c \in Idx : ArgMax(pm_if_c, c) = {0, 2}

\* every row of the cipher table is a bijection of 0..N-1
RowsBijective == \A key \in Idx : { cipher_table_data[key][msg] : msg \in Idx } = Idx
\* every ciphertext has positive probability
AllReachable == pc # None /\ \A c \in Idx : pc[c][1] > 0
ValidInput == RowsBijective /\ AllReachable
\* calc_average_loss_deterministic_func has just returned
AldfReturned == at = "calc_average_loss_stochastic_func"

\* C3: on a valid input the deterministic Bayes rule has the least average
\* 0-1 loss among all deterministic rules
C3_BayesOptimal ==
    (AldfReturned /\ ValidInput) =>
        \A r \in [Idx -> Idx] :
            ~RGreater(aldf, calc_average_loss_deterministic_func(pmc, r, N))

\* a valid input whose Bayes rule is strictly better than some rule and
\* still errs
C3_Witness ==
    /\ AldfReturned /\ ValidInput
    /\ RGreater(aldf, Zero)
    /\ \E r \in [Idx -> Idx] :
          RGreater(calc_average_loss_deterministic_func(pmc, r, N), aldf)

\* some ciphertext cannot occur
Unreachable == pc # None /\ \E c \in Idx : pc[c] = Zero
PosteriorAttempted ==
    pmc # None /\ at \notin {"calc_ct_prob", "calc_pt_ct_prob", "calc_pt_if_exist_ct_prob"}

\* C4: with an unreachable ciphertext (here under a table of bijections)
\* the posterior step ends in the domain-specific failure "undefined
\* posterior", never in a raw ZeroDivisionError
C4_UndefinedPosteriorSurfaced ==
    (RowsBijective /\ Unreachable /\ PosteriorAttempted) =>
        exc # "ZeroDivisionError" /\ exc = "UndefinedPosterior"

TableInRange == \A key \in Idx, msg \in Idx : cipher_table_data[key][msg] \in Idx

\* C5: for priors summing to 1 and a table with all entries in [0, n), P(C)
\* has no negative entry and sums to exactly 1
C5_CtProbSumsToOne ==
    (pc # None /\ TableInRange) =>
        /\ \A c \in Idx : pc[c][1] >= 0
        /\ RSum(pc, N - 1) = One

\* P(C) of a table in range with a row that is no bijection
C5_Witness ==
    /\ pc # None /\ TableInRange /\ ~RowsBijective
    /\ \A c \in Idx : pc[c] # Zero

\* the sum of column c of a matrix indexed [msg][ct]
ColSum(mat, c) == RSum([m \in Idx |-> mat[m][c]], N - 1)

\* C6: the joint distribution summed over the plaintexts is P(C), so every
\* column of the posterior sums to 1
C6_PosteriorNormalised ==
    /\ pmc # None => \A c \in Idx : ColSum(pmc, c) = pc[c]
    /\ pm_if_c # None => \A c \in Idx : ColSum(pm_if_c, c) = One

\* a posterior from a table with a row that is no bijection, with a column
\* shared by several plaintexts
C6_Witness ==
    /\ pm_if_c # None /\ ~RowsBijective
    /\ \E c \in Idx : Cardinality({ m \in Idx : pm_if_c[m][c] # Zero }) >= 2

\* C7: the deterministic choice has positive probability under the
\* stochastic rule
C7_RulesConsistent ==
    sf # None => \A c \in Idx : RGreater(sf[c][df[c]], Zero)

\* a column with three equal entries next to one with a single maximum
C7_Witness ==
    /\ sf # None
    /\ \E c \in Idx : Cardinality(ArgMax(pm_if_c, c)) = N
    /\ \E c \in Idx : Cardinality(ArgMax(pm_if_c, c)) = 1 /\ df[c] # 0

\* the table has an entry outside [0, n)
Malformed == ~TableInRange
\* every entry lies in [-n, n)
Indexable == \A key \in Idx, msg \in Idx : cipher_table_data[key][msg] \in (-N)..(N - 1)
\* the table with every negative entry e replaced by e + n
Wrapped == [key \in Idx |-> [msg \in Idx |-> cipher_table_data[key][msg] % N]]

\* C8 as stated: with an entry outside [0, n) both distributions are still
\* returned; only the division by zero of the posterior step may end main()
C8_NeverIndexError ==
    Malformed => exc # "IndexError"

\* C8 as amended: entries in [-n, -1] are taken as e + n and both
\* distributions are returned, P(C) still summing to 1; an entry >= n or
\* < -n ends calc_ct_prob with IndexError before anything is returned
C8_WrapOrIndexError ==
    (Malformed /\ at # "calc_ct_prob") =>
        IF Indexable
        THEN /\ exc # "IndexError"
             /\ pc # None
             /\ at # "calc_pt_ct_prob" => pmc # None
             /\ at = "calc_pt_ct_prob" =>
                   /\ pc = calc_ct_prob(prob_pt, prob_keys, Wrapped, N).val
                   /\ RSum(pc, N - 1) = One
             /\ at = "calc_pt_if_exist_ct_prob" =>
                   pmc = calc_pt_ct_prob(prob_pt, prob_keys, Wrapped, N).val
        ELSE /\ at = "raised" /\ exc = "IndexError"
             /\ pc = None /\ pmc = None

\* a table with a negative entry taken through the whole calculation
C8_Witness ==
    /\ Malformed /\ Indexable
    /\ alsf # None

\* input() has returned the line typed (which may be empty)
InputRead == at \in {"match", "exit"} \/ exc = "ValueError"
\* the line typed denotes one of the selections 1..7
IsSelection(text) == py_int(text).err = "none" /\ py_int(text).val \in 1..7

\* C9: any line that is not a selection 1..7 gets the invalid-selection
\* message and nothing else, and main() ends normally
C9_InvalidSelectionRecovered ==
    (InputRead /\ ~IsSelection(stdin)) =>
        /\ exc = "none"
        /\ at \in {"match", "exit"}
        /\ at = "exit" => out = "Incorrect value input! Try again"

\* C10: on a valid input the two rules have the same average loss
C10_EqualLosses ==
    (alsf # None /\ ValidInput) => alsf = aldf

\* a valid input whose posterior has a tied column
C10_Witness ==
    /\ alsf # None /\ ValidInput
    /\ \E c \in Idx : Cardinality(ArgMax(pm_if_c, c)) >= 2
    /\ \E c \in Idx : Cardinality(ArgMax(pm_if_c, c)) = 1

====
